---- MODULE Spec2Model ----
(***************************************************************************)
(* Model of the MTAG deserializer (animal_tag.serializer): the time        *)
(* unwrapper, the per-device DataBuffer accumulator and the two-pass       *)
(* FileParser.                                                             *)
(*                                                                         *)
(* The on-wire timestamps are 32 bit unsigned microsecond counters.  The   *)
(* model keeps the width as a parameter: a counter of TimeBits bits wraps  *)
(* modulo 2^TimeBits, and MAX_TIME is 2^TimeBits - 1 as in utils.py.       *)
(***************************************************************************)
EXTENDS Integers, Sequences, FiniteSets, TLC

\* ------------------------------------------------------------------ bounds
\* Width of the on-wire microsecond counter (32 in the program).
TimeBits == 4
\* Longest input handed to the unwrapper on its own.
MaxLen == 4
\* Most buffers in a file.
MaxBuffers == 3
\* Largest num_to_pop and buffer_pop_boundry.
MaxPop == 2
\* The longest format whose storage classes are asked for
TypeLen == 2

Modulus == 2 ^ TimeBits
\* utils.py:37  MAX_TIME = 2**32 - 1
MAX_TIME == 2 ^ TimeBits - 1
\* bad_frac = 0.5 (utils.py:118, and the two call sites), as a fraction
bad_frac_num == 1
bad_frac_den == 2
\* utils.py:38  MICROSECONDS_IN_A_SECOND = 1e6
MICROSECONDS_IN_A_SECOND == 1000000

\* ----------------------------------------------------------------- helpers
Min(S) == CHOOSE x \in S : \A y \in S : x <= y
Max(S) == CHOOSE x \in S : \A y \in S : x >= y
BoundedSeqs(S, n) == UNION {[1..k -> S] : k \in 0..n}
Mask(seq) == [j \in 1..Len(seq) |-> seq[j] % Modulus]
StrictlyIncreasing(seq) == \A j \in 1..(Len(seq) - 1) : seq[j] < seq[j + 1]
Monotone(seq) == \A j \in 1..(Len(seq) - 1) : seq[j] <= seq[j + 1]

\* ------------------------------------------------------ unwrapper (utils.py)
\* np.diff(items) >= bad_frac * max_number, on one difference
IsLargePos(d, max_number) == d * bad_frac_den >= bad_frac_num * max_number
\* np.diff(items) <= -bad_frac * max_number, on one difference
IsLargeNeg(d, max_number) == d * bad_frac_den <= -(bad_frac_num * max_number)

\* np.where(np.diff(items) >= bad_frac * max_number)[0]; index i stands for
\* the difference items[i+1] - items[i] (1-based; Python's index is i-1).
large_pos_diffs(items, max_number) ==
    {i \in 1..(Len(items) - 1) : IsLargePos(items[i + 1] - items[i], max_number)}

large_neg_diffs(items, max_number) ==
    {i \in 1..(Len(items) - 1) : IsLargeNeg(items[i + 1] - items[i], max_number)}

\* np.where(np.diff(items[(index+1):]) <= -bad_frac*max_number)[0]: the large
\* negative differences strictly after the difference i, as positions k of
\* the left element (Python's end_offset is k - (i+1)).
end_offsets(items, i, max_number) ==
    {k \in (i + 1)..(Len(items) - 1) : IsLargeNeg(items[k + 1] - items[k], max_number)}

\* items[(index+1):(index+1+end_offset+1)] -= max_number
subtract_run_short(items, i, k, max_number) ==
    [j \in 1..Len(items) |->
        IF j >= i + 1 /\ j < k THEN items[j] - max_number ELSE items[j]]
subtract_run(items, i, k, max_number) ==
    [j \in 1..Len(items) |->
        IF j >= i + 1 /\ j <= k THEN items[j] - max_number ELSE items[j]]

\* The loop over large_pos_diffs (utils.py:156-161).  The indices are those
\* of the input; items is modified in place, so each search reads the array
\* as the earlier iterations left it.  [0][0] on an empty np.where result
\* raises IndexError: ok = FALSE, with items as modified so far.
RECURSIVE fix_order(_, _, _)
fix_order(items, todo, max_number) ==
    IF todo = {} THEN [ok |-> TRUE, items |-> items]
    ELSE LET i == Min(todo)
             ends == end_offsets(items, i, max_number)
         IN  IF ends = {} THEN [ok |-> FALSE, items |-> items]
             ELSE fix_order(subtract_run(items, i, Min(ends), max_number),
                            todo \ {i}, max_number)

\* utils.py:164-173: large_neg_diffs is computed once, then every element
\* after each of them gets max_number added.
add_overflows(items, max_number) ==
    LET N == large_neg_diffs(items, max_number)
    IN  [items |-> [j \in 1..Len(items) |->
                       items[j] + max_number * Cardinality({i \in N : i < j})],
         overflows |-> Cardinality(N)]

\* unwrapper(values, max_number, bad_frac=0.5) -> (items, len(large_neg_diffs)),
\* or IndexError (ok = FALSE) out of the loop over large_pos_diffs
Returned(r) == [ok |-> TRUE, items |-> r.items, overflows |-> r.overflows]
unwrapper_after(f, max_number) ==
    IF f.ok THEN Returned(add_overflows(f.items, max_number))
    ELSE [ok |-> FALSE, items |-> f.items, overflows |-> 0]
unwrapper(values, max_number) ==
    unwrapper_after(fix_order(values, large_pos_diffs(values, max_number), max_number),
                    max_number)

\* ------------------------------------------- format descriptor (utils.py)
Tags == {"B", "b", "H", "h", "U", "u", "I", "i", "f", "L", "l", "X", "x", "T"}

\* utils.py:9-17
SIZE_DICT ==
    [t \in Tags |->
        CASE t \in {"B", "b", "X", "x"} -> 1
          [] t \in {"H", "h"} -> 2
          [] t \in {"U", "u"} -> 3
          [] OTHER -> 4]

RECURSIVE get_packet_size(_)
get_packet_size(format) ==
    IF format = <<>> THEN 0
    ELSE SIZE_DICT[Head(format)] + get_packet_size(Tail(format))

\* utils.py:22-35: the numpy storage class of every tag (np.single is
\* float32; the padding tags have np.nan)
TYPE_DICT ==
    [t \in Tags |->
        CASE t = "B" -> "int8"   [] t = "b" -> "uint8"
          [] t = "H" -> "int16"  [] t = "h" -> "uint16"
          [] t = "U" -> "int32"  [] t = "u" -> "uint32"
          [] t = "f" -> "float32"
          [] t = "i" -> "int32"  [] t = "I" -> "uint32"
          [] t = "L" -> "int32"  [] t = "l" -> "uint32"
          [] t \in {"X", "x"} -> "nan"
          [] OTHER -> "uint64"]
\* utils.py:57-69
get_packet_type(format) == [j \in 1..Len(format) |-> TYPE_DICT[format[j]]]

HasTag(format, t) == \E j \in 1..Len(format) : format[j] = t
\* str.index / str.find of a tag that is there: 0-based
IndexOf(format, t) == Min({j \in 1..Len(format) : format[j] = t}) - 1

\* utils.py:88-102, the first component: the number of data channels
count_data_channels(format) ==
    IF HasTag(format, "T") THEN Len(format) - 1 ELSE Len(format)

\* struct.unpack emits no element for a pad byte "x"
Unpacked(format) == SelectSeq(format, LAMBDA t : t # "x")

\* ------------------------------------------------------- struct (bytes)
\* utils.py:71-85: the struct format the parser unpacks with
correct_format(format) ==
    [j \in 1..Len(format) |-> IF format[j] = "T" THEN "I" ELSE format[j]]
\* buffer_generator.py:131-143: the struct format the generator packs with
gen_correct_format(format) ==
    [j \in 1..Len(format) |->
        IF format[j] = "X" THEN "B" ELSE IF format[j] = "T" THEN "L" ELSE format[j]]

\* The format characters struct knows, among the tags
StructChars == {"B", "b", "H", "h", "I", "i", "f", "L", "l", "x"}
BadChar(fmt) == \E j \in 1..Len(fmt) : fmt[j] \notin StructChars
\* Without "<" struct uses native sizes and alignment: a long is 8 bytes
StructSize(t, native) == IF native /\ t \in {"L", "l"} THEN 8 ELSE SIZE_DICT[t]
Align(off, s) == ((off + s - 1) \div s) * s

\* The offset of every code of fmt
RECURSIVE struct_layout(_, _, _)
struct_layout(fmt, native, off) ==
    IF fmt = <<>> THEN <<>>
    ELSE <<IF native THEN Align(off, StructSize(Head(fmt), native)) ELSE off>>
         \o struct_layout(Tail(fmt), native,
                          (IF native THEN Align(off, StructSize(Head(fmt), native)) ELSE off)
                          + StructSize(Head(fmt), native))
calcsize(fmt, native) ==
    IF fmt = <<>> THEN 0
    ELSE struct_layout(fmt, native, 0)[Len(fmt)] + StructSize(fmt[Len(fmt)], native)

\* little-endian
LE(v, n) == [i \in 1..n |-> (v \div (256 ^ (i - 1))) % 256]
RECURSIVE FromLE(_)
FromLE(b) == IF b = <<>> THEN 0 ELSE Head(b) + 256 * FromLE(Tail(b))

\* The values code t holds; the 32 bits of the wire are scaled as the counter
Fits(t, v) ==
    /\ v >= 0
    /\ SIZE_DICT[t] = 1 => v < 256
    /\ SIZE_DICT[t] = 2 => v < 256 * 256
    /\ SIZE_DICT[t] >= 3 => v < Modulus

RECURSIVE pack_bytes(_, _)
pack_bytes(fmt, vals) ==
    IF fmt = <<>> THEN <<>>
    ELSE IF Head(fmt) = "x" THEN <<0>> \o pack_bytes(Tail(fmt), vals)
    ELSE LE(Head(vals), SIZE_DICT[Head(fmt)]) \o pack_bytes(Tail(fmt), Tail(vals))

\* struct.pack("<" + fmt, *vals): a pad byte takes no value
struct_pack(fmt, vals) ==
    IF \/ BadChar(fmt)
       \/ Len(vals) # Len(Unpacked(fmt))
       \/ \E j \in 1..Len(vals) : ~Fits(Unpacked(fmt)[j], vals[j])
    THEN [err |-> "struct.error", bytes |-> <<>>]
    ELSE [err |-> "", bytes |-> pack_bytes(fmt, vals)]

\* struct.unpack(fmt, bytes): the buffer has to be calcsize(fmt) long
unpack_at(fmt, bytes, native, l, idx) ==
    [j \in 1..Len(idx) |->
        FromLE(SubSeq(bytes, l[idx[j]] + 1, l[idx[j]] + StructSize(fmt[idx[j]], native)))]
struct_unpack(fmt, bytes, native) ==
    IF BadChar(fmt) \/ Len(bytes) # calcsize(fmt, native)
    THEN [err |-> "struct.error", vals |-> <<>>]
    ELSE [err |-> "",
          vals |-> unpack_at(fmt, bytes, native, struct_layout(fmt, native, 0),
                             SelectSeq([k \in 1..Len(fmt) |-> k], LAMBDA k : fmt[k] # "x"))]

\* file_handle.read(n) at loc: what is left of the file, n bytes at most, and
\* all of it when n is negative
ReadBytes(bytes, loc, n) ==
    SubSeq(bytes, loc + 1, IF n >= 0 /\ loc + n <= Len(bytes) THEN loc + n ELSE Len(bytes))

RECURSIVE Repeat(_, _)
Repeat(seq, n) == IF n <= 0 THEN <<>> ELSE seq \o Repeat(seq, n - 1)

\* ------------------------------------------------ deques and Python values
\* starmap(d.popleft, repeat((), n)) run to its end: n elements leave the
\* deque, or all of them and popleft raises IndexError.
PopLeft(q, n) ==
    IF Len(q) >= n
    THEN [ok |-> TRUE, popped |-> SubSeq(q, 1, n), rest |-> SubSeq(q, n + 1, Len(q))]
    ELSE [ok |-> FALSE, popped |-> q, rest |-> <<>>]

\* The header_time argument of append_raw_data is an int, or [] when the
\* sub-header has no T: <<t>> and <<>> here.  Python's truth value of it:
Truthy(header_time) == header_time # <<>> /\ header_time[1] # 0

\* ---------------------------------------------------- DataBuffer (utils.py)
\* The deque objects: <<0, field, 0>> is the object that the def statement of
\* __init__ made for the default of field, once, and <<owner, field, c>> is an
\* object made for the accumulator of device owner
DefaultDeque(field) == <<0, field, 0>>
OwnDeques(owner, num_deques) ==
    [header_data |-> <<owner, "header_data", 0>>,
     header_time |-> <<owner, "header_time", 0>>,
     time |-> <<owner, "time", 0>>,
     data |-> [c \in 1..num_deques |-> <<owner, "data", c>>]]

\* utils.py:210-220 as initialize_data calls it (deserializer.py:200-202):
\* DataBuffer(data=[deque() ...], pop_boundry, chunk_size); header_data,
\* header_time and time are bound to the default objects; refs names the
\* object of every queue
NewDataBuffer(owner, num_deques, pop_boundry, chunk_size) ==
    [header_data |-> <<>>, header_time |-> <<>>, time |-> <<>>,
     data |-> [c \in 1..num_deques |-> <<>>],
     time_offset |-> 0, num_buffers |-> 0, last_time |-> 0,
     pop_boundry |-> pop_boundry, chunk_size |-> chunk_size,
     refs |-> [OwnDeques(owner, num_deques) EXCEPT
                  !.header_data = DefaultDeque("header_data"),
                  !.header_time = DefaultDeque("header_time"),
                  !.time = DefaultDeque("time")]]

\* An initialize_data that does not call reset()
reset_skipped(self, owner) == self
\* utils.py:331-340: every queue is bound to a new deque
reset(self, owner) ==
    [self EXCEPT !.header_time = <<>>, !.header_data = <<>>, !.time = <<>>,
                 !.data = [c \in 1..Len(self.data) |-> <<>>],
                 !.refs = OwnDeques(owner, Len(self.data))]

\* utils.py:254-261; self.data[i] with i past the list raises IndexError
extend_data(self, data) ==
    LET n == IF Len(data) < Len(self.data) THEN Len(data) ELSE Len(self.data)
    IN  [buf |-> [self EXCEPT !.data =
                     [c \in 1..Len(self.data) |->
                         IF c <= n THEN self.data[c] \o data[c] ELSE self.data[c]]],
         err |-> IF Len(data) > Len(self.data) THEN "IndexError" ELSE ""]

\* An append that asks for a drain only once num_buffers exceeds pop_boundry
append_raw_data_late(self, header_data, header_time, data, time) ==
    LET s1 == IF header_data # <<>>
              THEN [self EXCEPT !.header_data = Append(@, header_data)] ELSE self
        s2 == IF Truthy(header_time)
              THEN [s1 EXCEPT !.header_time = Append(@, header_time[1])] ELSE s1
        s3 == IF time # <<>> THEN [s2 EXCEPT !.time = @ \o time] ELSE s2
        e  == IF data # <<>> THEN extend_data(s3, data) ELSE [buf |-> s3, err |-> ""]
        s5 == [e.buf EXCEPT !.num_buffers = @ + 1]
    IN  IF e.err # "" THEN [buf |-> e.buf, err |-> e.err, ret |-> FALSE]
        ELSE IF s5.num_buffers # Len(s5.header_time)
        THEN [buf |-> s5, err |-> "AssertionError", ret |-> FALSE]
        ELSE [buf |-> s5, err |-> "", ret |-> s5.num_buffers > s5.pop_boundry]

\* utils.py:222-252
append_raw_data(self, header_data, header_time, data, time) ==
    LET s1 == IF header_data # <<>>
              THEN [self EXCEPT !.header_data = Append(@, header_data)] ELSE self
        s2 == IF Truthy(header_time)
              THEN [s1 EXCEPT !.header_time = Append(@, header_time[1])] ELSE s1
        s3 == IF time # <<>> THEN [s2 EXCEPT !.time = @ \o time] ELSE s2
        e  == IF data # <<>> THEN extend_data(s3, data) ELSE [buf |-> s3, err |-> ""]
        s5 == [e.buf EXCEPT !.num_buffers = @ + 1]
    IN  IF e.err # "" THEN [buf |-> e.buf, err |-> e.err, ret |-> FALSE]
        ELSE IF s5.num_buffers # Len(s5.header_time)
        THEN [buf |-> s5, err |-> "AssertionError", ret |-> FALSE]
        ELSE [buf |-> s5, err |-> "", ret |-> s5.num_buffers >= s5.pop_boundry]

\* np.linspace(a, b, n+1)[:-1]: every window starts on its first anchor
Interpolate_off(popped_times, num_buffer_to_pop, num_packets_per_buffer) ==
    [r \in 1..(num_buffer_to_pop * num_packets_per_buffer) |->
        LET i == ((r - 1) \div num_packets_per_buffer) + 1
            j == ((r - 1) % num_packets_per_buffer) + 1
        IN  num_packets_per_buffer * popped_times[i]
            + (j - 1) * (popped_times[i + 1] - popped_times[i])]

\* utils.py:298-299: np.linspace(a, b, n+1)[1:] for every pair of consecutive
\* popped times, as numerators over num_packets_per_buffer
Interpolate(popped_times, num_buffer_to_pop, num_packets_per_buffer) ==
    [r \in 1..(num_buffer_to_pop * num_packets_per_buffer) |->
        LET i == ((r - 1) \div num_packets_per_buffer) + 1
            j == ((r - 1) % num_packets_per_buffer) + 1
        IN  num_packets_per_buffer * popped_times[i]
            + j * (popped_times[i + 1] - popped_times[i])]

\* The time vector of a drain (utils.py:290-312) holds numerators over
\* num_packets_per_buffer microseconds in both modes.
TimeFailed(b, e) == [buf |-> b, err |-> e, time |-> <<>>, num_overflows |-> 0]

\* utils.py:296-300: the axis is interpolated between the popped times as
\* they were popped; of the unwrapper's result only num_overflows is used
header_time_axis(s1, popped_ok, popped_times, u, n, np) ==
    IF ~popped_ok \/ ~u.ok \/ n * np = 0 THEN TimeFailed(s1, "IndexError")
    ELSE [buf |-> [s1 EXCEPT !.last_time = popped_times[n + 1]], err |-> "",
          time |-> Interpolate(popped_times, n, np), num_overflows |-> u.overflows]

\* utils.py:295
header_time_unwrap(s1, popped_ok, popped_times, n, np) ==
    header_time_axis(s1, popped_ok, popped_times, unwrapper(popped_times, MAX_TIME), n, np)

\* utils.py:291-293; p is POPPER(self.header_time, num_buffer_to_pop) run out
pop_header_time(self, p, n, np) ==
    header_time_unwrap([self EXCEPT !.header_time = p.rest], p.ok,
                       <<self.last_time>> \o p.popped, n, np)

\* utils.py:309-310: the sub-header times of the drained buffers are dropped
sample_time_drop(s1, h, u, np) ==
    IF s1.header_time # <<>> /\ ~h.ok
    THEN TimeFailed([s1 EXCEPT !.header_time = <<>>], "IndexError")
    ELSE [buf |-> IF s1.header_time # <<>> THEN [s1 EXCEPT !.header_time = h.rest] ELSE s1,
          err |-> "",
          time |-> [j \in 1..Len(u.items) |-> np * u.items[j]],
          num_overflows |-> u.overflows]

sample_time_axis(s1, popped_ok, u, n, np) ==
    IF ~popped_ok \/ ~u.ok THEN TimeFailed(s1, "IndexError")
    ELSE sample_time_drop(s1, PopLeft(s1.header_time, n), u, np)

\* utils.py:303-305; p is POPPER(self.time, len_data) run out
pop_sample_time(self, p, n, np) ==
    sample_time_axis([self EXCEPT !.time = p.rest], p.ok,
                     unwrapper([j \in 1..Len(p.popped) |-> self.time_offset + p.popped[j]],
                               MAX_TIME),
                     n, np)

pop_time_reset(self, num_buffer_to_pop, num_packets_per_buffer) ==
    IF self.header_time # <<>> /\ self.time = <<>>
    THEN pop_header_time(self, PopLeft(self.header_time, num_buffer_to_pop),
                         num_buffer_to_pop, num_packets_per_buffer)
    ELSE IF self.time # <<>>
    THEN pop_sample_time(self, PopLeft(self.time, num_buffer_to_pop * num_packets_per_buffer),
                         num_buffer_to_pop, num_packets_per_buffer)
    ELSE TimeFailed([self EXCEPT !.data = [c \in 1..Len(self.data) |-> <<>>],
                                 !.num_buffers = 0, !.time_offset = 0, !.last_time = 0],
                    "TypeError")
\* utils.py:290-312
pop_time(self, num_buffer_to_pop, num_packets_per_buffer) ==
    IF self.header_time # <<>> /\ self.time = <<>>
    THEN pop_header_time(self, PopLeft(self.header_time, num_buffer_to_pop),
                         num_buffer_to_pop, num_packets_per_buffer)
    ELSE IF self.time # <<>>
    THEN pop_sample_time(self, PopLeft(self.time, num_buffer_to_pop * num_packets_per_buffer),
                         num_buffer_to_pop, num_packets_per_buffer)
    ELSE TimeFailed(self, "TypeError")

\* utils.py:314-316: with header_data there, header_time is popped (again)
pop_header_data_popped(self, h) ==
    [buf |-> [self EXCEPT !.header_time = h.rest],
     err |-> IF h.ok THEN "" ELSE "IndexError"]
pop_header_data(self, num_buffer_to_pop) ==
    IF self.header_data # <<>>
    THEN pop_header_data_popped(self, PopLeft(self.header_time, num_buffer_to_pop))
    ELSE [buf |-> self, err |-> ""]

\* utils.py:321-325: every channel deque gives len_data elements, which fill
\* column i of the zero matrix of num_channels columns; a deque that runs
\* out, or a column past the matrix, raises IndexError
pop_channels_lifo(self, len_data, num_channels) ==
    [buf |-> [self EXCEPT !.data =
                 [c \in 1..Len(self.data) |->
                     SubSeq(self.data[c], 1, Len(self.data[c]) - len_data)]],
     err |-> "",
     data |-> [r \in 1..len_data |->
                 [c \in 1..num_channels |->
                     IF c <= Len(self.data)
                     THEN self.data[c][Len(self.data[c]) - len_data + r] ELSE 0]]]
pop_channels_from(self, len_data, num_channels, bad) ==
    [buf |-> [self EXCEPT !.data =
                 [c \in 1..Len(self.data) |->
                     IF bad = {} \/ c <= Min(bad) THEN PopLeft(self.data[c], len_data).rest
                     ELSE self.data[c]]],
     err |-> IF bad = {} THEN "" ELSE "IndexError",
     data |-> IF bad # {} THEN <<>>
              ELSE [r \in 1..len_data |->
                      [c \in 1..num_channels |->
                          IF c <= Len(self.data) THEN self.data[c][r] ELSE 0]]]
pop_channels(self, len_data, num_channels) ==
    pop_channels_from(self, len_data, num_channels,
                      {c \in 1..Len(self.data) :
                          Len(self.data[c]) < len_data \/ c > num_channels})

\* utils.py:263-329.  The DataWrite holds time / MICROSECONDS_IN_A_SECOND: its
\* time numerators are over time_den = num_packets * 10^6, in seconds.
DrainFailed(b, e) == [buf |-> b, err |-> e, time |-> <<>>, data |-> <<>>]

\* A drain that forgets to count down num_buffers
pop_data_return_keep(c, time, n) ==
    IF c.err # "" THEN DrainFailed(c.buf, c.err)
    ELSE [buf |-> c.buf, err |-> "", time |-> time, data |-> c.data]

\* utils.py:327-329
pop_data_return(c, time, n) ==
    IF c.err # "" THEN DrainFailed(c.buf, c.err)
    ELSE [buf |-> [c.buf EXCEPT !.num_buffers = @ - n], err |-> "",
          time |-> time, data |-> c.data]

\* utils.py:318-325
pop_data_channels(h, t, n, np, num_channels) ==
    IF h.err # "" THEN DrainFailed(h.buf, h.err)
    ELSE pop_data_return(
             pop_channels([h.buf EXCEPT !.time_offset = @ + t.num_overflows * MAX_TIME],
                          n * np, num_channels),
             t.time, n)

\* utils.py:314-316
pop_data_header(t, n, np, num_channels) ==
    IF t.err # "" THEN DrainFailed(t.buf, t.err)
    ELSE pop_data_channels(pop_header_data(t.buf, n), t, n, np, num_channels)

pop_data(self, num_buffer_to_pop, num_packets_per_buffer, num_channels) ==
    pop_data_header(pop_time(self, num_buffer_to_pop, num_packets_per_buffer),
                    num_buffer_to_pop, num_packets_per_buffer, num_channels)

\* The denominator of the time numerators of a DataWrite, in seconds
time_den(num_packets_per_buffer) == num_packets_per_buffer * MICROSECONDS_IN_A_SECOND

\* ------------------------------------------------ FileParser (deserializer.py)
\* The packets of a buffer counted as if the sub-header took no room
num_packets_whole(buffer_size, header_size, data_packet_size) ==
    buffer_size \div data_packet_size
\* deserializer.py:298
num_packets(buffer_size, header_size, data_packet_size) ==
    (buffer_size - header_size) \div data_packet_size

\* deserializer.py:290-308, one entry; formatting is a device of the header
DecoderEntry(formatting) ==
    LET header_size == get_packet_size(formatting.header)
        data_packet_size == get_packet_size(formatting.data)
        packets == num_packets(formatting.buffer_size, header_size, data_packet_size)
    IN  [device |-> formatting.device,
         header |-> formatting.header,
         data |-> formatting.data,
         buffer_size |-> formatting.buffer_size,
         header_has_time |-> HasTag(formatting.header, "T"),
         data_has_time |-> HasTag(formatting.data, "T"),
         header_size |-> header_size,
         data_packet_size |-> data_packet_size,
         num_packets |-> packets,
         num_overflow_bytes |-> formatting.buffer_size - packets * data_packet_size
                                - header_size,
         data_read_format |->
             Repeat(formatting.data, packets)
             \o Repeat(<<"x">>, formatting.buffer_size - packets * data_packet_size
                                - header_size),
         channel_names |-> formatting.channel_names,
         num_buffers |-> 0,
         num_channels |-> count_data_channels(formatting.data)]

\* A table that gives every id the entry of the first device of the header
generate_decoder_first(buffers) ==
    [id \in {buffers[k].id : k \in 1..Len(buffers)} |-> DecoderEntry(buffers[1])]

\* decoder.update({formatting["id"]: temp}) over header["buffers"] in order:
\* the last device of an id is the one the table keeps
generate_decoder(buffers) ==
    [id \in {buffers[k].id : k \in 1..Len(buffers)} |->
        DecoderEntry(buffers[Max({k \in 1..Len(buffers) : buffers[k].id = id})])]

\* The keys of the decoder (and of self.data) in dict order: by first insertion
RECURSIVE decoder_keys(_)
decoder_keys(buffers) ==
    IF buffers = <<>> THEN <<>>
    ELSE LET front == decoder_keys(SubSeq(buffers, 1, Len(buffers) - 1))
             id == buffers[Len(buffers)].id
         IN  IF \E k \in 1..Len(front) : front[k] = id THEN front
             ELSE Append(front, id)

\* A pass 1 that seeks a whole buffer_size past the ID it has just read
RECURSIVE count_scan_off(_, _, _, _)
count_scan_off(dec, bytes, file_loc, tot) ==
    IF file_loc >= Len(bytes) THEN [err |-> "", decoder |-> dec, tot_buffers |-> tot]
    ELSE IF bytes[file_loc + 1] \notin DOMAIN dec
    THEN [err |-> "Exception", decoder |-> dec, tot_buffers |-> tot]
    ELSE count_scan_off([dec EXCEPT ![bytes[file_loc + 1]].num_buffers = @ + 1], bytes,
                        file_loc + 1 + dec[bytes[file_loc + 1]].buffer_size, tot + 1)

\* deserializer.py:331-340: the loop of pass 1 from file_loc on; bytes is the
\* file after its header line
RECURSIVE count_scan(_, _, _, _)
count_scan(dec, bytes, file_loc, tot) ==
    IF file_loc >= Len(bytes) THEN [err |-> "", decoder |-> dec, tot_buffers |-> tot]
    ELSE IF bytes[file_loc + 1] \notin DOMAIN dec
    THEN [err |-> "Exception", decoder |-> dec, tot_buffers |-> tot]
    ELSE count_scan([dec EXCEPT ![bytes[file_loc + 1]].num_buffers = @ + 1], bytes,
                    file_loc + 1 + (dec[bytes[file_loc + 1]].buffer_size - 1), tot + 1)
\* deserializer.py:323-342
count_buffers(dec, bytes) == count_scan(dec, bytes, 0, 0)

\* deserializer.py:310-321: read(1)[0]
read_id(bytes, file_loc) ==
    IF file_loc >= Len(bytes) THEN [err |-> "IndexError", id |-> 0]
    ELSE [err |-> "", id |-> bytes[file_loc + 1]]

\* deserializer.py:244-245
read_header_content(entry, bytes, file_loc) ==
    struct_unpack(correct_format(Tail(entry.header)),
                  ReadBytes(bytes, file_loc, entry.header_size - 1), TRUE)

\* deserializer.py:258-262 (formats with U or u go to rawutil and are not modelled)
read_all_bytes(entry, bytes, file_loc) ==
    struct_unpack(correct_format(entry.data_read_format),
                  ReadBytes(bytes, file_loc, entry.buffer_size - entry.header_size), FALSE)

\* A read_data_buffer that leaves the reader on the last byte of the buffer
tell_short(entry, bytes, file_loc) == file_loc + entry.buffer_size - 1
\* deserializer.py:277-280: file_handle.tell() after the three reads of
\* read_data_buffer at file_loc, whose last read, of a negative count, runs
\* to the end of the file
tell_after(entry, bytes, file_loc) ==
    IF entry.buffer_size < entry.header_size THEN Len(bytes)
    ELSE file_loc + 1 + (entry.header_size - 1) + (entry.buffer_size - entry.header_size)

\* deserializer.py:243-254; hdr is what struct.unpack gives for header[1:]
read_data_header(entry, hdr) ==
    IF entry.header_has_time
    THEN LET t_index == IndexOf(Tail(entry.header), "T")
         IN  IF t_index >= Len(hdr)
             THEN [err |-> "IndexError", data |-> <<>>, time |-> <<>>]
             ELSE [err |-> "",
                   data |-> SubSeq(hdr, 1, t_index) \o SubSeq(hdr, t_index + 2, Len(hdr)),
                   time |-> <<hdr[t_index + 1]>>]
    ELSE [err |-> "", data |-> hdr, time |-> <<>>]

\* raw_data[i::step]
Stride(raw, i, step) ==
    [k \in 1..(IF Len(raw) > i THEN ((Len(raw) - i - 1) \div step) + 1 ELSE 0) |->
        raw[i + 1 + (k - 1) * step]]

\* deserializer.py:256-275; raw is what unpack gives for the payload
read_raw_data_buffer(entry, raw) ==
    LET data == [c \in 1..Len(entry.data) |-> Stride(raw, c - 1, Len(entry.data))]
    IN  IF entry.data_has_time
        THEN LET t_index == IndexOf(entry.data, "T")
             IN  [data |-> SubSeq(data, 1, t_index) \o SubSeq(data, t_index + 2, Len(data)),
                  time |-> data[t_index + 1]]
        ELSE [data |-> data, time |-> <<>>]

\* deserializer.py:200: one deque per tag of data that is neither x nor t
num_deques(data_format) ==
    Len(SelectSeq(data_format, LAMBDA t : t \notin {"x", "X", "T"}))

\* deserializer.py:80-88: a dataset of a negative number of samples is asked
\* of h5py, which refuses the shape
datasets_refused(dec) ==
    \E id \in DOMAIN dec : dec[id].num_packets * dec[id].num_buffers < 0

\* deserializer.py:78-105: no dataset for a device without samples
create_datasets(dec, buffers) ==
    [name \in {buffers[k].device : k \in 1..Len(buffers)} |->
        LET made == {id \in DOMAIN dec :
                        /\ dec[id].device = name
                        /\ dec[id].num_packets * dec[id].num_buffers # 0}
        IN  IF made = {}
            THEN [created |-> FALSE, size |-> 0, ind |-> 0, time |-> <<>>, data |-> <<>>]
            ELSE [created |-> TRUE,
                  size |-> LET id == CHOOSE x \in made : TRUE
                           IN  dec[id].num_packets * dec[id].num_buffers,
                  ind |-> 0, time |-> <<>>, data |-> <<>>]]

\* deserializer.py:49-65 with DataWrite.sub_chunks (utils.py:198-207): the
\* whole chunks of to_save are written at ind; time and data hold the rows
\* written so far
save_data(loc, to_save, chunk_size) ==
    LET n == (Len(to_save.time) \div chunk_size) * chunk_size
    IN  [loc EXCEPT !.time = @ \o SubSeq(to_save.time, 1, n),
                    !.data = @ \o SubSeq(to_save.data, 1, n),
                    !.size = IF n > 0 /\ @ < loc.ind + n THEN 2 * @ ELSE @,
                    !.ind = @ + n]

\* deserializer.py:39-44: every dataset is resized to the rows written
close_file(l) ==
    [name \in DOMAIN l |->
        IF l[name].created /\ l[name].ind < l[name].size
        THEN [l[name] EXCEPT !.size = l[name].ind] ELSE l[name]]

\* A process_buffer that drains num_to_pop buffers whatever the counter says
num_popped_all(ntp, num_buffs) == ntp
\* deserializer.py:176-185
num_popped(ntp, num_buffs) == IF ntp < num_buffs THEN ntp ELSE num_buffs

NotDrained(b, e) ==
    [buf |-> b, err |-> e, popped |-> 0, drained |-> FALSE, time |-> <<>>, data |-> <<>>]
process_drained(r, n) ==
    [buf |-> r.buf, err |-> r.err, popped |-> IF r.err = "" THEN n ELSE 0,
     drained |-> r.err = "", time |-> r.time, data |-> r.data]
process_appended(a, entry, n) ==
    IF a.err # "" \/ ~a.ret THEN NotDrained(a.buf, a.err)
    ELSE process_drained(pop_data(a.buf, n, entry.num_packets, entry.num_channels), n)
process_buffer(acc, entry, ntp, num_buffs, header_data, header_time, d, time) ==
    process_appended(append_raw_data(acc, header_data, header_time, d, time),
                     entry, num_popped(ntp, num_buffs))

\* ------------------------------------------------------------------- state
VARIABLES
    \* the unwrapper called on its own
    uw_ramp,       \* the unmasked values the input was sampled from
    uw_values,     \* the input of the call
    uw_max,        \* max_number of the call
    uw_pc,         \* "call", "fixed" (after the large_pos_diffs loop), "done", "IndexError"
    uw_items,      \* items, as the call has modified it so far
    uw_overflows,  \* the returned overflow count
    \* FileParser.parse
    header,              \* header["buffers"]: the devices, in order
    file,                \* what lies in the file from where the reader is when pass 1 starts
    num_to_pop,
    buffer_pop_boundry,
    pc,                  \* where parse() is
    err,                 \* the exception that ended parse(), or ""
    decoder,
    tot_buffers,
    buffers_read,
    data,                \* self.data: id -> [data: the DataBuffer, num_buffs]
    locs,                \* the sink: device name -> the rows written and SaveFileLoc
    flush_pos,           \* position of the final loop in self.data.keys()
    drains,              \* id -> the row count of every DataWrite given to the sink
    file_loc,            \* file_handle.tell(), counted from where pass 1 starts
    gen,                 \* the reference generator's DataBuffer, or <<>>
    \* get_packet_type called on its own
    ty_format,     \* the format of the call
    ty_pc,         \* "idle", "call", "done"
    ty_types       \* what the call returned

uw_vars == <<uw_ramp, uw_values, uw_max, uw_pc, uw_items, uw_overflows>>
cfg_vars == <<header, file, num_to_pop, buffer_pop_boundry, gen>>
run_vars == <<pc, err, decoder, tot_buffers, buffers_read, data, locs, flush_pos, drains,
              file_loc>>
ty_vars == <<ty_format, ty_pc, ty_types>>
vars == <<uw_vars, cfg_vars, run_vars, ty_vars>>

\* parse() has not been called
ParserIdle ==
    /\ header = <<>> /\ file = <<>> /\ num_to_pop = 0 /\ buffer_pop_boundry = 0
    /\ pc = "idle" /\ err = "" /\ decoder = <<>> /\ tot_buffers = 0
    /\ buffers_read = 0 /\ data = <<>> /\ locs = <<>> /\ flush_pos = 0
    /\ drains = <<>> /\ file_loc = 0 /\ gen = <<>>

\* the unwrapper and get_packet_type are not being called on their own
UnwrapIdle ==
    /\ uw_ramp = <<>> /\ uw_values = <<>> /\ uw_max = 0 /\ uw_pc = "idle"
    /\ uw_items = <<>> /\ uw_overflows = 0
    /\ ty_format = <<>> /\ ty_pc = "idle" /\ ty_types = <<>>

\* ------------------------------------------- the unwrapper called on its own
\* An 8 bit counter, as in the comments of unwrapper ([254 0 255]).
SeedMax == 2 ^ 8
SeedVals == {0, 1, 253, 254, 255}
SeedLen == MaxLen + 1
\* Counter values at the ends of the range and around its middle, where the
\* unwrapper's thresholds lie.
CounterVals ==
    {0, 1, 2, (Modulus \div 2) - 1, Modulus \div 2, (Modulus \div 2) + 1,
     Modulus - 2, Modulus - 1}
\* Steps of a sampled ramp: none, one tick, just below and at the threshold,
\* and a whole period and more.
RampSteps == {0, 1, (Modulus \div 2) - 1, Modulus \div 2, Modulus - 1, Modulus + 1}

RECURSIVE Ramp(_, _)
Ramp(start, steps) ==
    IF steps = <<>> THEN <<start>>
    ELSE <<start>> \o Ramp(start + Head(steps), Tail(steps))

UnwrapInit ==
    /\ uw_pc = "call"
    /\ uw_overflows = 0
    /\ \/ \* any sequence of counter values
          /\ uw_max = MAX_TIME
          /\ uw_ramp \in BoundedSeqs(CounterVals, MaxLen)
          /\ uw_values = uw_ramp
       \/ \* a monotone ramp, masked to the counter's width
          /\ uw_max = MAX_TIME
          /\ \E start \in CounterVals, steps \in BoundedSeqs(RampSteps, MaxLen) :
                uw_ramp = Ramp(start, steps)
          /\ uw_values = Mask(uw_ramp)
       \/ \* the 8 bit examples of the comments
          /\ uw_max = SeedMax
          /\ uw_ramp \in BoundedSeqs(SeedVals, SeedLen)
          /\ uw_values = uw_ramp
    /\ uw_items = uw_values
    /\ ty_format = <<>> /\ ty_pc = "idle" /\ ty_types = <<>>
    /\ ParserIdle

\* utils.py:142-161
UnwrapFixOrder ==
    /\ uw_pc = "call"
    /\ LET f == fix_order(uw_values, large_pos_diffs(uw_values, uw_max), uw_max)
       IN  /\ uw_items' = f.items
           /\ uw_pc' = IF f.ok THEN "fixed" ELSE "IndexError"
    /\ UNCHANGED <<uw_ramp, uw_values, uw_max, uw_overflows, cfg_vars, run_vars, ty_vars>>

\* utils.py:164-173
UnwrapOverflows ==
    /\ uw_pc = "fixed"
    /\ LET r == add_overflows(uw_items, uw_max)
       IN  /\ uw_items' = r.items
           /\ uw_overflows' = r.overflows
    /\ uw_pc' = "done"
    /\ UNCHANGED <<uw_ramp, uw_values, uw_max, cfg_vars, run_vars, ty_vars>>

UnwrapNext == UnwrapFixOrder \/ UnwrapOverflows

SpecUnwrap == UnwrapInit /\ [][UnwrapNext]_vars

\* ------------------------------------- get_packet_type called on its own
TypesInit ==
    /\ ty_format \in BoundedSeqs(Tags, TypeLen)
    /\ ty_pc = "call" /\ ty_types = <<>>
    /\ uw_ramp = <<>> /\ uw_values = <<>> /\ uw_max = 0 /\ uw_pc = "idle"
    /\ uw_items = <<>> /\ uw_overflows = 0
    /\ ParserIdle

\* utils.py:57-69
GetPacketType ==
    /\ ty_pc = "call"
    /\ ty_types' = get_packet_type(ty_format)
    /\ ty_pc' = "done"
    /\ UNCHANGED <<ty_format, uw_vars, cfg_vars, run_vars>>

SpecTypes == TypesInit /\ [][GetPacketType]_vars

\* ----------------------------------------------------------- the MTAG files
BTx == <<"B", "T", "x">>
BTH == <<"B", "T", "H">>
\* sub-header time only, two channels
DevA == [device |-> "A", id |-> 1, header |-> BTx, data |-> <<"H", "B">>, buffer_size |-> 12,
         channel_names |-> <<"ch0", "ch1">>]
\* per-sample time
DevB == [device |-> "B", id |-> 2, header |-> BTx, data |-> <<"T", "H">>, buffer_size |-> 18,
         channel_names |-> <<"ch0">>]
\* sub-header time only, and a sub-header slot besides T
DevC == [device |-> "C", id |-> 3, header |-> BTH, data |-> <<"H">>, buffer_size |-> 11,
         channel_names |-> <<"ch0">>]
\* per-sample time, no T in the sub-header
DevD == [device |-> "D", id |-> 4, header |-> <<"B", "x">>, data |-> <<"T", "H">>,
         buffer_size |-> 14, channel_names |-> <<"ch0">>]
\* per-sample time, and a sub-header slot besides T
DevE == [device |-> "E", id |-> 5, header |-> BTH, data |-> <<"T", "H">>, buffer_size |-> 19,
         channel_names |-> <<"ch0">>]
\* the devices of the seed scenarios S1 and S2 (test_creation.py:12-21)
DevS1 == [device |-> "test", id |-> 1, header |-> BTx, data |-> <<"H">>, buffer_size |-> 10,
          channel_names |-> <<"ch0">>]
DevS2 == [device |-> "test", id |-> 1, header |-> BTx, data |-> <<"H", "B">>,
          buffer_size |-> 8192, channel_names |-> <<"ch0", "ch1">>]

\* sub-header time only, and a pad byte between the two channels of a packet
DevP == [device |-> "P", id |-> 6, header |-> BTx, data |-> <<"H", "x", "B">>,
         buffer_size |-> 14, channel_names |-> <<"ch0", "ch1">>]

Headers == {<<DevA>>, <<DevB>>, <<DevA, DevB>>, <<DevC>>, <<DevD>>, <<DevE>>, <<DevS1>>}

\* Microseconds between two samples of a buffer, and the clock when the
\* file starts: the file's clock is strictly increasing, and what is
\* written is the clock modulo 2^TimeBits.
SampleSteps == {1, 3}
ClockStarts == {0, Modulus - 3, Modulus - 2}

\* The value of channel slot c of packet j of the b-th buffer of the file
SampleVal(b, j, c) == 50 * b + 10 * j + c

\* One buffer as the logger writes it: the samples are taken step apart
\* after clock, and the buffer is stamped when the last one is taken.
\* hdr and raw are the values of the non-padding tags, in order; true_times
\* and true_stamp are the clock values that were masked.
BufferValues(formatting, b, clock, step) ==
    LET e == DecoderEntry(formatting)
        tags == Unpacked(formatting.data)
        k == Len(tags)
        sample_time(j) == clock + j * step
        stamp == clock + e.num_packets * step
    IN  [id |-> formatting.id,
         hdr |-> LET h == Unpacked(Tail(formatting.header))
                 IN  [x \in 1..Len(h) |-> IF h[x] = "T" THEN stamp % Modulus ELSE 0],
         raw |-> [x \in 1..(e.num_packets * k) |->
                    LET j == ((x - 1) \div k) + 1
                        c == ((x - 1) % k) + 1
                    IN  IF tags[c] = "T" THEN sample_time(j) % Modulus
                        ELSE SampleVal(b, j, c)],
         true_times |-> [j \in 1..e.num_packets |-> sample_time(j)],
         true_stamp |-> stamp]

\* The bytes of a buffer: the ID, the sub-header, the packets, the padding
BufferBytes(formatting, e, hdr, raw) ==
    <<formatting.id>> \o pack_bytes(Tail(formatting.header), hdr)
    \o pack_bytes(Repeat(formatting.data, e.num_packets), raw)
    \o [x \in 1..e.num_overflow_bytes |-> 0]
WithBytes(formatting, e, r) ==
    [id |-> r.id, hdr |-> r.hdr, raw |-> r.raw, true_times |-> r.true_times,
     true_stamp |-> r.true_stamp, bytes |-> BufferBytes(formatting, e, r.hdr, r.raw)]

MakeBuffer(formatting, b, clock, step) ==
    WithBytes(formatting, DecoderEntry(formatting), BufferValues(formatting, b, clock, step))
\* The file after its header line
RECURSIVE FileBytes(_)
FileBytes(f) == IF f = <<>> THEN <<>> ELSE Head(f).bytes \o FileBytes(Tail(f))

DeviceOf(buffers, id) == buffers[Max({k \in 1..Len(buffers) : buffers[k].id = id})]

RECURSIVE MakeFile(_, _, _, _)
MakeFile(buffers, ids, steps, clock) ==
    IF ids = <<>> THEN <<>>
    ELSE LET n == Len(ids)
             front == MakeFile(buffers, SubSeq(ids, 1, n - 1), SubSeq(steps, 1, n - 1), clock)
             now == IF n = 1 THEN clock ELSE front[n - 1].true_stamp
         IN  Append(front, MakeBuffer(DeviceOf(buffers, ids[n]), n, now, steps[n]))

\* ------------------------------------- the reference generator's files
\* str.find: 0-based, -1 when the tag is not there; and a Python list index
Find(format, t) == IF HasTag(format, t) THEN IndexOf(format, t) ELSE -1
PyIndex(i, n) == IF i < 0 THEN n + i + 1 ELSE i + 1

\* buffer_generator.py:104-106
data_pack(header_format, id, time) ==
    [x \in 1..Len(header_format) |->
        IF x = PyIndex(Find(header_format, "T"), Len(header_format)) THEN time
        ELSE IF x = PyIndex(Find(header_format, "B"), Len(header_format)) THEN id
        ELSE 0]
\* buffer_generator.py:93-107
create_buffer_header(header_format, id, time) ==
    struct_pack(gen_correct_format(header_format), data_pack(header_format, id, time))

\* buffer_generator.py:83-85, packet i (from 0) of a buffer written at time
temp_data(self, data_format, time, value, reps, i) ==
    [x \in 1..Len(data_format) |->
        IF Find(data_format, "T") # -1 /\ x = Find(data_format, "T") + 1
        THEN time + (((i + 1) * self.time) \div reps)
        ELSE IF data_format[x] # "X" THEN value ELSE 0]

\* buffer_generator.py:83-87: the packets from i on, then the padding
RECURSIVE create_packets(_, _, _, _, _, _, _)
create_packets(self, data_format, time, value, reps, underflow, i) ==
    IF i >= reps
    THEN [err |-> "", bytes |-> [x \in 1..underflow |-> 0], vals |-> <<>>]
    ELSE LET p == struct_pack(gen_correct_format(data_format),
                              temp_data(self, data_format, time, value, reps, i))
             rest == create_packets(self, data_format, time, value, reps,
                                    underflow, i + 1)
         IN  IF p.err # "" THEN [err |-> p.err, bytes |-> <<>>, vals |-> <<>>]
             ELSE IF rest.err # "" THEN rest
             ELSE [err |-> "", bytes |-> p.bytes \o rest.bytes,
                   vals |-> temp_data(self, data_format, time, value, reps, i)
                            \o rest.vals]

\* buffer_generator.py:76-79
num_reps(header_format, data_format, buffer_size) ==
    (buffer_size - get_packet_size(header_format)) \div get_packet_size(data_format)
bytes_underflow(header_format, data_format, buffer_size) ==
    buffer_size - get_packet_size(header_format)
    - num_reps(header_format, data_format, buffer_size) * get_packet_size(data_format)

\* buffer_generator.py:61-91
buffer_of(h, p) ==
    IF h.err # "" THEN [err |-> h.err, bytes |-> <<>>, vals |-> <<>>]
    ELSE IF p.err # "" THEN p
    ELSE [err |-> "", bytes |-> h.bytes \o p.bytes, vals |-> p.vals]
create_buffer(self, id, time, header_format, data_format, buffer_size, value) ==
    buffer_of(create_buffer_header(header_format, id, time),
              create_packets(self, data_format, time, value,
                             num_reps(header_format, data_format, buffer_size),
                             bytes_underflow(header_format, data_format, buffer_size),
                             0))

\* buffer_generator.py:43-59: header["buffers"]
create_file_header(self) ==
    <<[device |-> self.buffer_name, id |-> self.id, time |-> self.time,
       header |-> self.header_format, data |-> self.data_format,
       buffer_size |-> self.buffer_size, channel_names |-> self.channel_names]>>

\* buffer_generator.py:124-129: the buffers from i on (from 0), up to the first
\* that raises
RECURSIVE write_buffers(_, _)
written(self, i, b, rest) ==
    IF b.err # "" THEN [err |-> b.err, file |-> <<>>]
    ELSE [err |-> rest.err,
          file |-> <<[id |-> self.id, hdr |-> <<(i + 1) * self.time>>, raw |-> b.vals,
                      true_times |-> <<>>, true_stamp |-> (i + 1) * self.time,
                      bytes |-> b.bytes]>> \o rest.file]
write_buffers(self, i) ==
    IF i >= self.num_buffers THEN [err |-> "", file |-> <<>>]
    ELSE written(self, i,
                 create_buffer(self, self.id, (i + 1) * self.time, self.header_format,
                               self.data_format, self.buffer_size, self.value),
                 IF create_buffer(self, self.id, (i + 1) * self.time, self.header_format,
                                  self.data_format, self.buffer_size, self.value).err # ""
                 THEN [err |-> "", file |-> <<>>]
                 ELSE write_buffers(self, i + 1))
\* buffer_generator.py:109-129
write_file(self) == write_buffers(self, 0)

\* The configurations of the generator: the header and data formats of the
\* tests (test_creation.py:12-14) and their neighbours, buffers of zero to
\* GenPackets packets with and without padding, and one byte short
GenHeaders == {<<"B", "T">>, BTx, <<"B", "T", "X">>}
GenData == {<<"H">>, <<"H", "B">>, <<"T", "H">>, <<"H", "X">>, <<"T", "T">>}
GenPackets == 2
GenPads == {-1, 0, 1}
GenTimes == {1, 2}
GenValues == {2}
ChNames == <<"ch0", "ch1", "ch2">>
GenConfigs ==
    {[id |-> 1, time |-> t, header_format |-> h, data_format |-> d,
      buffer_size |-> get_packet_size(h) + k * get_packet_size(d) + pad,
      value |-> v, num_buffers |-> n, buffer_name |-> "test",
      channel_names |-> SubSeq(ChNames, 1, Len(d))] :
        t \in GenTimes, h \in GenHeaders, d \in GenData, k \in 0..GenPackets,
        pad \in GenPads, v \in GenValues, n \in 0..MaxBuffers}

GenInit ==
    /\ UnwrapIdle
    /\ gen \in GenConfigs
    /\ num_to_pop \in 1..MaxPop
    /\ buffer_pop_boundry \in 1..MaxPop
    /\ header = <<>> /\ file = <<>>
    /\ pc = "write" /\ err = ""
    /\ decoder = <<>> /\ tot_buffers = 0 /\ buffers_read = 0
    /\ data = <<>> /\ locs = <<>> /\ flush_pos = 0 /\ drains = <<>>
    /\ file_loc = 0

\* buffer_generator.py:109-129; w is what write_file wrote
Wrote(w) ==
    /\ file' = w.file
    /\ pc' = IF w.err = "" THEN "start" ELSE "error"
    /\ err' = w.err
WriteFile ==
    /\ pc = "write"
    /\ header' = create_file_header(gen)
    /\ Wrote(write_file(gen))
    /\ UNCHANGED <<ty_vars, uw_vars, num_to_pop, buffer_pop_boundry, gen, decoder, tot_buffers,
                   buffers_read, data, locs, flush_pos, drains, file_loc>>

\* --------------------------------------------------------- FileParser.parse
Init ==
    /\ UnwrapIdle
    /\ header \in Headers
    /\ num_to_pop \in 1..MaxPop
    /\ buffer_pop_boundry \in 1..MaxPop
    /\ \E n \in 0..MaxBuffers :
         \E ids \in [1..n -> {header[k].id : k \in 1..Len(header)}],
            steps \in [1..n -> SampleSteps], start \in ClockStarts :
              file = MakeFile(header, ids, steps, start)
    /\ pc = "start" /\ err = ""
    /\ decoder = <<>> /\ tot_buffers = 0 /\ buffers_read = 0
    /\ data = <<>> /\ locs = <<>> /\ flush_pos = 0 /\ drains = <<>>
    /\ file_loc = 0 /\ gen = <<>>

\* deserializer.py:214-219
GenerateDecoder ==
    /\ pc = "start"
    /\ decoder' = generate_decoder(header)
    /\ pc' = "count"
    /\ UNCHANGED <<ty_vars, uw_vars, cfg_vars, err, tot_buffers, buffers_read, data, locs,
                   flush_pos, drains, file_loc>>

\* deserializer.py:220, pass 1; c is what count_buffers leaves
Counted(c) ==
    /\ decoder' = c.decoder
    /\ tot_buffers' = c.tot_buffers
    /\ pc' = IF c.err = "" THEN "init" ELSE "error"
    /\ err' = c.err
CountBuffers ==
    /\ pc = "count"
    /\ Counted(count_buffers(decoder, FileBytes(file)))
    /\ UNCHANGED <<ty_vars, uw_vars, cfg_vars, buffers_read, data, locs, flush_pos, drains, file_loc>>

\* deserializer.py:221-223
InitializeData ==
    /\ pc = "init"
    /\ IF datasets_refused(decoder)
       THEN /\ pc' = "error" /\ err' = "ValueError"
            /\ UNCHANGED <<locs, data, drains, buffers_read, flush_pos>>
       ELSE /\ locs' = create_datasets(decoder, header)
            /\ data' = [id \in DOMAIN decoder |->
                           [data |-> reset(NewDataBuffer(id, num_deques(decoder[id].data),
                                                         buffer_pop_boundry,
                                                         decoder[id].num_packets), id),
                            num_buffs |-> 0]]
            /\ drains' = [id \in DOMAIN decoder |-> <<>>]
            /\ buffers_read' = 0
            /\ flush_pos' = 1
            /\ pc' = IF tot_buffers > 0 THEN "stream" ELSE "flush"
            /\ err' = err
    /\ UNCHANGED <<ty_vars, uw_vars, cfg_vars, decoder, tot_buffers, file_loc>>

\* deserializer.py:226-229: what process_buffer returned, p, reaches the sink
StreamProcessed(id, entry, num_buffs, p) ==
    /\ file_loc' = tell_after(entry, FileBytes(file), file_loc)
    /\ data' = [data EXCEPT ![id] = [data |-> p.buf, num_buffs |-> num_buffs - p.popped]]
    /\ IF p.err # ""
       THEN /\ pc' = "error" /\ err' = p.err
            /\ UNCHANGED <<locs, drains, buffers_read>>
       ELSE /\ buffers_read' = buffers_read + 1
            /\ pc' = IF buffers_read + 1 < tot_buffers THEN "stream" ELSE "flush"
            /\ err' = ""
            /\ IF p.drained
               THEN /\ locs' = [locs EXCEPT ![entry.device] =
                                   save_data(@, p, data[id].data.chunk_size)]
                    /\ drains' = [drains EXCEPT ![id] = Append(@, Len(p.time))]
               ELSE UNCHANGED <<locs, drains>>

\* deserializer.py:277-282 (read_data_buffer) and 226
StreamRead(id, entry, h, r) ==
    IF h.err # ""
    THEN /\ pc' = "error" /\ err' = h.err
         /\ UNCHANGED <<data, locs, drains, buffers_read, file_loc>>
    ELSE StreamProcessed(id, entry, data[id].num_buffs + 1,
                         process_buffer(data[id].data, entry, num_to_pop,
                                        data[id].num_buffs + 1,
                                        h.data, h.time, r.data, r.time))

\* parse() ends with the exception e
Raised(e) ==
    /\ pc' = "error" /\ err' = e
    /\ UNCHANGED <<data, locs, drains, buffers_read, file_loc>>

\* deserializer.py:279-280: hu and ru are what struct.unpack gave for the
\* sub-header and for the payload
StreamUnpacked(id, entry, hu, ru) ==
    IF hu.err # "" THEN Raised(hu.err)
    ELSE IF ru.err # "" THEN Raised(ru.err)
    ELSE StreamRead(id, entry, read_data_header(entry, hu.vals),
                    read_raw_data_buffer(entry, ru.vals))

\* deserializer.py:278: i is what read_id gave
StreamId(i, bytes) ==
    IF i.err # "" THEN Raised(i.err)
    ELSE IF i.id \notin DOMAIN decoder THEN Raised("KeyError")
    ELSE StreamUnpacked(i.id, decoder[i.id],
                        read_header_content(decoder[i.id], bytes, file_loc + 1),
                        read_all_bytes(decoder[i.id], bytes,
                                       file_loc + decoder[i.id].header_size))

\* deserializer.py:224-229, one iteration of pass 2
StreamAt(bytes) == StreamId(read_id(bytes, file_loc), bytes)
StreamBuffer ==
    /\ pc = "stream"
    /\ buffers_read < tot_buffers
    /\ StreamAt(FileBytes(file))
    /\ UNCHANGED <<ty_vars, uw_vars, cfg_vars, decoder, tot_buffers, flush_pos>>

\* deserializer.py:234-237: the DataWrite of the final drain, r, reaches the sink
FlushDrained(id, entry, r) ==
    /\ data' = [data EXCEPT ![id].data = r.buf]
    /\ IF r.err # ""
       THEN /\ pc' = "error" /\ err' = r.err
            /\ UNCHANGED <<locs, drains, flush_pos>>
       ELSE /\ locs' = [locs EXCEPT ![entry.device] =
                           save_data(@, r, data[id].data.chunk_size)]
            /\ drains' = [drains EXCEPT ![id] = Append(@, Len(r.time))]
            /\ flush_pos' = flush_pos + 1
            /\ UNCHANGED <<pc, err>>

FlushOne(id, entry) ==
    IF data[id].num_buffs > 0
    THEN FlushDrained(id, entry,
                      pop_data(data[id].data, data[id].num_buffs, entry.num_packets,
                               entry.num_channels))
    ELSE /\ flush_pos' = flush_pos + 1
         /\ UNCHANGED <<pc, err, data, locs, drains>>

\* deserializer.py:232-237, one iteration of the final loop
FlushDevice ==
    /\ pc = "flush"
    /\ flush_pos <= Len(decoder_keys(header))
    /\ FlushOne(decoder_keys(header)[flush_pos], decoder[decoder_keys(header)[flush_pos]])
    /\ UNCHANGED <<ty_vars, uw_vars, cfg_vars, decoder, tot_buffers, buffers_read, file_loc>>

\* deserializer.py:239-241 and FileSaver.close_file (39-44)
CloseFiles ==
    /\ pc = "flush"
    /\ flush_pos > Len(decoder_keys(header))
    /\ locs' = close_file(locs)
    /\ pc' = "done"
    /\ UNCHANGED <<ty_vars, uw_vars, cfg_vars, err, decoder, tot_buffers, buffers_read, data,
                   flush_pos, drains, file_loc>>

Next == GenerateDecoder \/ CountBuffers \/ InitializeData \/ StreamBuffer
        \/ FlushDevice \/ CloseFiles

Spec == Init /\ [][Next]_vars

\* The parser on the files of the reference generator
GenNext == WriteFile \/ Next
SpecGen == GenInit /\ [][GenNext]_vars

\* ------------------------------------------- files as they lie on the disk
\* The header line that write_file puts in front of the buffers
\* (buffer_generator.py:121-123): json text from "{" to the newline
HeaderLine == <<123, 34, 125, 10>>
LineRecord == [id |-> HeaderLine[1], hdr |-> <<>>, raw |-> <<>>, true_times |-> <<>>,
               true_stamp |-> 0, bytes |-> HeaderLine]
\* A file whose last buffer has lost its last k bytes
CutLast(f, k) ==
    IF f = <<>> THEN f ELSE [f EXCEPT ![Len(f)].bytes = SubSeq(@, 1, Len(@) - k)]
\* How many bytes the last buffer may have lost: none, its last byte, all
\* but the ID and two bytes of the sub-header, all but the ID
Cuts(f) ==
    IF f = <<>> THEN {0}
    ELSE {0, 1, Len(f[Len(f)].bytes) - 3, Len(f[Len(f)].bytes) - 1}

\* parse() on a file of the disk: the file may end inside its last buffer,
\* and parse(header_file) leaves the reader in front of the header line
\* (deserializer.py:215-218: read_file_header is not called)
RawInit ==
    /\ UnwrapIdle
    /\ header \in Headers \cup {<<DevP>>}
    /\ num_to_pop \in 1..MaxPop
    /\ buffer_pop_boundry \in 1..MaxPop
    /\ \E n \in 0..MaxBuffers :
         \E ids \in [1..n -> {header[k].id : k \in 1..Len(header)}],
            steps \in [1..n -> SampleSteps], start \in ClockStarts,
            header_file \in BOOLEAN :
              \E k \in Cuts(MakeFile(header, ids, steps, start)) :
                 file = (IF header_file THEN <<LineRecord>> ELSE <<>>)
                        \o CutLast(MakeFile(header, ids, steps, start), k)
    /\ pc = "start" /\ err = ""
    /\ decoder = <<>> /\ tot_buffers = 0 /\ buffers_read = 0
    /\ data = <<>> /\ locs = <<>> /\ flush_pos = 0 /\ drains = <<>>
    /\ file_loc = 0 /\ gen = <<>>

\* FileSaver.close_file (deserializer.py:39-44) called on the sink after
\* parse() has raised
FinalizeSink ==
    /\ pc = "error"
    /\ locs' = close_file(locs)
    /\ pc' = "finalized"
    /\ UNCHANGED <<ty_vars, uw_vars, cfg_vars, err, decoder, tot_buffers, buffers_read, data,
                   flush_pos, drains, file_loc>>

RawNext == Next \/ FinalizeSink
SpecRaw == RawInit /\ [][RawNext]_vars

\* ---------------------------------------------------- claims on the parser
ParseReturned == pc = "done"
Ids == DOMAIN drains
NameOf(id) == decoder[id].device

\* The buffers of device id, in file order, as positions in the file
BuffersOf(id) == SelectSeq([k \in 1..Len(file) |-> k], LAMBDA k : file[k].id = id)

\* The payload samples of device id in file order: one row per packet, one
\* column per tag of data other than T
PayloadRows(id) ==
    LET fmt == DeviceOf(header, id).data
        slots == SelectSeq([x \in 1..Len(fmt) |-> x], LAMBDA x : fmt[x] # "T")
        np == decoder[id].num_packets
        bs == BuffersOf(id)
    IN  [r \in 1..(np * Len(bs)) |->
            [c \in 1..Len(slots) |->
                SampleVal(bs[((r - 1) \div np) + 1], ((r - 1) % np) + 1, slots[c])]]

RECURSIVE SumSeq(_)
SumSeq(seq) == IF seq = <<>> THEN 0 ELSE Head(seq) + SumSeq(Tail(seq))
\* The row of the sink where the k-th DataWrite of device id ends
DrainEnd(id, k) == SumSeq(SubSeq(drains[id], 1, k))

\* C1 (conservation): when parse() returns, for any num_to_pop and
\* buffer_pop_boundry, the rows forwarded for each device over the threshold
\* drains and the final flush are num_packets * num_buffers in number (the
\* pre-allocated length) and are the device's payload samples in file order.
C1_Conservation ==
    ParseReturned =>
        \A id \in Ids :
            /\ SumSeq(drains[id]) = decoder[id].num_packets * decoder[id].num_buffers
            /\ locs[NameOf(id)].ind = decoder[id].num_packets * decoder[id].num_buffers
            /\ Len(locs[NameOf(id)].time) = locs[NameOf(id)].ind
            /\ locs[NameOf(id)].data = PayloadRows(id)
C1_Witness ==
    /\ ParseReturned
    /\ Len(header) = 2
    /\ \E id \in Ids :
          /\ Len(drains[id]) >= 2
          /\ num_to_pop < decoder[id].num_buffers
          /\ locs[NameOf(id)].data = PayloadRows(id)
          /\ Len(PayloadRows(id)) >= 4

\* The clock values behind the times the drains of device id use: the
\* per-sample times when data has T, else the sub-header stamps
TrueTimes(id) ==
    LET bs == BuffersOf(id)
        np == decoder[id].num_packets
    IN  IF decoder[id].data_has_time
        THEN [r \in 1..(np * Len(bs)) |->
                 file[bs[((r - 1) \div np) + 1]].true_times[((r - 1) % np) + 1]]
        ELSE [k \in 1..Len(bs) |-> file[bs[k]].true_stamp]
\* The clock is strictly increasing and no step of it reaches the
\* unwrapper's threshold bad_frac * MAX_TIME (for the sub-header stamps,
\* the step from last_time = 0 to the first one included)
SteadyClock(id) ==
    LET t == TrueTimes(id)
    IN  /\ \A j \in 1..(Len(t) - 1) : t[j] < t[j + 1] /\ 2 * (t[j + 1] - t[j]) < MAX_TIME
        /\ (~decoder[id].data_has_time /\ Len(t) > 0) => 2 * t[1] < MAX_TIME

\* C2 (monotone across drains): for a device whose timestamps come from a
\* strictly increasing clock reduced to TimeBits bits, the first time of
\* every drain is greater than the last time of the drain before it.
C2_AcrossDrains ==
    \A id \in Ids :
        SteadyClock(id) =>
            \A k \in 1..(Len(drains[id]) - 1) :
                locs[NameOf(id)].time[DrainEnd(id, k)]
                    < locs[NameOf(id)].time[DrainEnd(id, k) + 1]

\* C3 (dense-time monotonicity): the time vector of every single drain is
\* strictly increasing, also when the counter wraps among the timestamps
\* the drain pops.
C3_WithinDrain ==
    \A id \in Ids :
        SteadyClock(id) =>
            \A k \in 1..Len(drains[id]) :
                \A r \in (DrainEnd(id, k - 1) + 1)..(DrainEnd(id, k) - 1) :
                    locs[NameOf(id)].time[r] < locs[NameOf(id)].time[r + 1]

\* C9 (num_buffers == |header_time|): after every append and every drain the
\* parser makes that returns, in both drain modes and with header_data.
C9_NumBuffersIsHeaderTime ==
    pc \in {"stream", "flush", "done"} =>
        \A id \in DOMAIN data :
            data[id].data.num_buffers = Len(data[id].data.header_time)

\* C10 (append with an empty argument): an append whose header_time is empty,
\* for a device timed by per-sample T only, returns without raising.
C10_EmptyHeaderTime ==
    ~(/\ pc = "error"
      /\ buffers_read < tot_buffers
      /\ ~decoder[file[buffers_read + 1].id].header_has_time
      /\ err = "AssertionError")

\* C11 (NoTimeSource): a drain of an accumulator whose header_time and time
\* queues are both empty fails, and leaves the accumulator as it was: no
\* channel queue is popped, time_offset, last_time and num_buffers keep their
\* values, and nothing reaches the sink.
C11_Draining(id) ==
    /\ pc = "flush"
    /\ flush_pos <= Len(decoder_keys(header))
    /\ decoder_keys(header)[flush_pos] = id
    /\ data[id].num_buffs > 0
C11_NoTimeSource ==
    [][\A id \in DOMAIN data :
          (/\ C11_Draining(id)
           /\ data[id].data.header_time = <<>>
           /\ data[id].data.time = <<>>)
          => (pc' = "error" /\ err' = "TypeError" /\ data' = data /\ locs' = locs)]_vars
C11_Witness ==
    /\ pc = "error"
    /\ err = "TypeError"
    /\ \E id \in DOMAIN data :
          /\ data[id].data.header_time = <<>>
          /\ data[id].data.time = <<>>
          /\ data[id].data.num_buffers > 0
          /\ data[id].data.last_time > 0
          /\ \E c \in 1..Len(data[id].data.data) : data[id].data.data[c] # <<>>

\* C12: pass 1 is exact.  For a well-formed file of k buffers, whatever the
\* interleaving of devices of different buffer_size, count_buffers does not
\* fail, tot_buffers is k, every decoder[id].num_buffers is the number of
\* buffers of that id in the file, and these counts add up to tot_buffers.
RECURSIVE C12_Sum(_, _)
C12_Sum(dec, keys) ==
    IF keys = <<>> THEN 0 ELSE dec[Head(keys)].num_buffers + C12_Sum(dec, Tail(keys))
C12_Counted == pc \in {"init", "stream", "flush", "done"}
C12_Pass1Exact ==
    /\ err # "Exception"
    /\ C12_Counted =>
         /\ tot_buffers = Len(file)
         /\ \A id \in DOMAIN decoder :
               decoder[id].num_buffers = Cardinality({k \in 1..Len(file) : file[k].id = id})
         /\ C12_Sum(decoder, decoder_keys(header)) = tot_buffers
C12_Witness ==
    /\ pc = "init"
    /\ header = <<DevA, DevB>>
    /\ Len(file) = 3
    /\ file[1].id = 2 /\ file[2].id = 1 /\ file[3].id = 2
    /\ decoder[1].num_buffers = 1 /\ decoder[2].num_buffers = 2
    /\ decoder[1].buffer_size # decoder[2].buffer_size

\* C13: the size law.  For every configuration of the reference generator
\* with buffer_size >= header_size + data_packet_size, once write_file has
\* run every buffer of the file is exactly buffer_size bytes, so the file
\* after its header line is num_buffers * buffer_size bytes.
C13_SizeLaw ==
    (/\ pc # "write"
     /\ gen.buffer_size >= get_packet_size(gen.header_format)
                            + get_packet_size(gen.data_format))
    => /\ \A k \in 1..Len(file) : Len(file[k].bytes) = gen.buffer_size
       /\ Len(FileBytes(file)) = gen.num_buffers * gen.buffer_size

\* C14: decoder uniqueness.  Once generate_decoder has run, the keys of the
\* decoder are exactly the ids of the devices of header["buffers"], there is
\* one entry per device, and every device's entry is its own.
C14_DecoderUnique ==
    pc \notin {"write", "start"} =>
        /\ DOMAIN decoder = {header[k].id : k \in 1..Len(header)}
        /\ Cardinality(DOMAIN decoder) = Len(header)
        /\ \A k \in 1..Len(header) :
              /\ decoder[header[k].id].device = header[k].device
              /\ decoder[header[k].id].buffer_size = header[k].buffer_size
              /\ decoder[header[k].id].data = header[k].data
C14_Witness ==
    /\ pc = "count"
    /\ Len(header) = 2
    /\ DOMAIN decoder = {1, 2}
    /\ decoder[1].device = "A" /\ decoder[2].device = "B"

\* C15: for every device generate_decoder accepts, num_packets is the
\* quotient (buffer_size - header_size) div data_packet_size and is >= 0,
\* 0 <= num_overflow_bytes < data_packet_size, the three parts add up to
\* buffer_size, and the generator's packets per buffer and padding bytes
\* are these two numbers.
C15_Arithmetic(e) ==
    /\ e.num_packets = (e.buffer_size - e.header_size) \div e.data_packet_size
    /\ e.num_packets >= 0
    /\ 0 <= e.num_overflow_bytes /\ e.num_overflow_bytes < e.data_packet_size
    /\ e.header_size + e.num_packets * e.data_packet_size + e.num_overflow_bytes
       = e.buffer_size
    /\ num_reps(e.header, e.data, e.buffer_size) = e.num_packets
    /\ bytes_underflow(e.header, e.data, e.buffer_size) = e.num_overflow_bytes
C15_DecoderArithmetic == \A id \in DOMAIN decoder : C15_Arithmetic(decoder[id])

\* S1 is being parsed, and S1 with its 3 buffers has been parsed
C16_S1 == header = <<DevS1>> /\ pc \notin {"write", "start"}
C16_S1Parsed == C16_S1 /\ ParseReturned /\ Len(file) = 3
\* The rows S2 gives for 4 buffers: num_buffers * num_packets (C1)
C16_S2Rows ==
    4 * num_packets(DevS2.buffer_size, get_packet_size(DevS2.header),
                    get_packet_size(DevS2.data))

\* C16 as the specification words it: with header "BTx", S1 (data "H",
\* buffer_size 10, 3 buffers) has (10 - 4) / 2 = 3 packets per buffer and its
\* parse emits a time column of 3 * 3 = 9 rows, and S2 (data "HB",
\* buffer_size 8192, 4 buffers) emits 4 * 2729 = 10916 rows of two channels.
C16_SeedRowsAsWorded ==
    /\ C16_S1 => decoder[1].num_packets = 3
    /\ C16_S1Parsed =>
         /\ Len(locs["test"].time) = 9
         /\ C16_S2Rows = 10916
         /\ count_data_channels(DevS2.data) = 2

\* C16 amended: the sub-header "BTx" is 1 + 4 + 1 = 6 bytes, so S1 has
\* (10 - 6) div 2 = 2 packets per buffer and its parse emits a time column
\* of 3 * 2 = 6 rows of one channel, and S2 emits 4 * ((8192 - 6) div 3) =
\* 4 * 2728 = 10912 rows of two channels.
C16_SeedRows ==
    /\ C16_S1 => decoder[1].num_packets = 2
    /\ C16_S1Parsed =>
         /\ Len(locs["test"].time) = 6
         /\ Len(locs["test"].data) = 6
         /\ \A r \in 1..6 : Len(locs["test"].data[r]) = 1
         /\ C16_S2Rows = 10912
         /\ count_data_channels(DevS2.data) = 2
C16_Witness ==
    /\ C16_S1Parsed
    /\ decoder[1].num_buffers = 3
    /\ Len(locs["test"].time) = 6

\* Mode 1: the time axis comes from the sub-header stamps alone
C17_Mode1(id) == decoder[id].header_has_time /\ ~decoder[id].data_has_time
\* The anchors of device id: 0, then the stamps of its buffers in file order
C17_Anchor(id, k) ==
    IF k = 0 THEN 0
    ELSE read_data_header(decoder[id], file[BuffersOf(id)[k]].hdr).time[1]
\* No wrap among the anchors: every stamp is the clock value itself
C17_NoWrap(id) ==
    \A k \in 1..Len(BuffersOf(id)) :
        file[BuffersOf(id)[k]].true_stamp = C17_Anchor(id, k)
\* Sample j of window k, as a numerator over num_packets
C17_Sample(id, k, j) ==
    decoder[id].num_packets * C17_Anchor(id, k - 1)
    + j * (C17_Anchor(id, k) - C17_Anchor(id, k - 1))

\* C17 (interpolation boundary): for a Mode 1 device with no wrap among the
\* anchors t_0 = 0, t_1, t_2, ... (the stamps in file order; every drain
\* starts from last_time, the last anchor of the drain before), window k of
\* the emitted time holds the num_packets samples
\* t_(k-1) + j * (t_k - t_(k-1)) / num_packets, j = 1..num_packets, so its
\* last sample is t_k exactly, and after the drains last_time is the stamp of
\* the last buffer drained.  For S1 the last emitted time is the stamp of
\* the third buffer, 3 * time.
C17_InterpolationBoundary ==
    \A id \in Ids :
        (C17_Mode1(id) /\ C17_NoWrap(id)) =>
            /\ \A r \in 1..Len(locs[NameOf(id)].time) :
                  locs[NameOf(id)].time[r]
                  = C17_Sample(id, ((r - 1) \div decoder[id].num_packets) + 1,
                               ((r - 1) % decoder[id].num_packets) + 1)
            /\ \A k \in 1..(Len(locs[NameOf(id)].time) \div decoder[id].num_packets) :
                  locs[NameOf(id)].time[k * decoder[id].num_packets]
                  = decoder[id].num_packets * C17_Anchor(id, k)
            /\ pc # "error" =>
                  data[id].data.last_time
                  = C17_Anchor(id, SumSeq(drains[id]) \div decoder[id].num_packets)
            /\ C16_S1Parsed =>
                  locs["test"].time[Len(locs["test"].time)]
                  = decoder[1].num_packets * file[3].hdr[1]
C17_Witness ==
    /\ ParseReturned
    /\ \E id \in Ids :
          /\ C17_Mode1(id) /\ C17_NoWrap(id)
          /\ Len(drains[id]) >= 2
          /\ Len(BuffersOf(id)) = 3
          /\ Len(locs[NameOf(id)].time) = 3 * decoder[id].num_packets
          /\ data[id].data.last_time = C17_Anchor(id, 3)
          /\ locs[NameOf(id)].time[1] < decoder[id].num_packets * C17_Anchor(id, 1)

\* What read_data_buffer returns for the payload raw of a generator file:
\* one sequence per data channel, num_packets long, all equal to value, and
\* the per-sample times apart from the channels
C18_Payload(e, r) ==
    /\ Len(r.data) = count_data_channels(gen.data_format)
    /\ \A c \in 1..Len(r.data) :
          /\ Len(r.data[c]) = e.num_packets
          /\ \A j \in 1..Len(r.data[c]) : r.data[c][j] = gen.value
    /\ HasTag(gen.data_format, "T") => Len(r.time) = e.num_packets
    /\ ~HasTag(gen.data_format, "T") => r.time = <<>>
C18_Read(e, i, hu, ru) ==
    /\ i.err = "" /\ i.id = gen.id
    /\ hu.err = "" /\ ru.err = ""
    /\ read_data_header(e, hu.vals).err = ""
    /\ read_data_header(e, hu.vals).time = <<(buffers_read + 1) * gen.time>>
    /\ C18_Payload(e, read_raw_data_buffer(e, ru.vals))
C18_ReadAt(e, bytes) ==
    C18_Read(e, read_id(bytes, file_loc), read_header_content(e, bytes, file_loc + 1),
             read_all_bytes(e, bytes, file_loc + e.header_size))

\* C18 (write/read round trip): on a file the reference generator wrote with
\* value v and period time, the i-th read_data_buffer (i = 1..num_buffers)
\* returns the device id, the header_time i * time, and data_channels(data)
\* channels of num_packets elements all equal to v; the per-sample times of
\* a data format with T come apart from the channels.
C18_RoundTrip ==
    (pc = "stream" /\ buffers_read < tot_buffers) =>
        C18_ReadAt(decoder[gen.id], FileBytes(file))

\* The accumulator of device id holds at most n buffers
C19_Holds(id, n) ==
    /\ Len(data[id].data.header_time) <= n
    /\ \A c \in 1..Len(data[id].data.data) :
          Len(data[id].data.data[c]) <= n * decoder[id].num_packets

\* C19 (bounded accumulator): in every state of pass 2, for every device,
\* header_time holds at most pop_boundry stamps and every channel queue at
\* most pop_boundry * num_packets samples; between two buffers the
\* accumulator holds fewer than pop_boundry buffers, since the append that
\* reaches pop_boundry is followed at once by a drain of
\* min(num_to_pop, num_buffs) >= 1 buffers.
C19_Bounded ==
    \A id \in DOMAIN data :
        /\ C19_Holds(id, buffer_pop_boundry)
        /\ pc \in {"stream", "flush", "done"} => C19_Holds(id, buffer_pop_boundry - 1)
C19_Witness ==
    /\ pc = "stream"
    /\ buffer_pop_boundry >= 2
    /\ \E id \in DOMAIN data :
          /\ drains[id] # <<>>
          /\ Len(data[id].data.header_time) = buffer_pop_boundry - 1
          /\ \E c \in 1..Len(data[id].data.data) :
                Len(data[id].data.data[c]) = (buffer_pop_boundry - 1) * decoder[id].num_packets

\* The invariants of a device of the header that BadSpec is about
C20_Times(format) == Cardinality({j \in 1..Len(format) : format[j] = "T"})
C20_Oversize(dev) ==
    get_packet_size(dev.header) + get_packet_size(dev.data) > dev.buffer_size
C20_NamesMismatch(dev) == Len(dev.channel_names) # count_data_channels(dev.data)
C20_ManyTimes(dev) == C20_Times(dev.header) > 1 \/ C20_Times(dev.data) > 1
C20_Violates(dev) == C20_Oversize(dev) \/ C20_NamesMismatch(dev) \/ C20_ManyTimes(dev)

\* C20 (BadSpec): when a device of the header has an oversize packet, a number
\* of channel names other than its number of data channels, or more than one
\* T in a format, building the decoder fails: parse() never gets to pass 1
\* or beyond.
C20_BadSpecAborts ==
    (\E k \in 1..Len(header) : C20_Violates(header[k]))
    => pc \notin {"count", "init", "stream", "flush", "done"}

\* The accumulator of device id holds nothing that a drain takes
C22_Empty(id) ==
    /\ data[id].data.num_buffers = 0
    /\ data[id].data.header_time = <<>>
    /\ data[id].data.time = <<>>
    /\ \A c \in 1..Len(data[id].data.data) : data[id].data.data[c] = <<>>
\* An iteration of the final loop on device id
C22_Flushing(id) ==
    /\ pc = "flush"
    /\ flush_pos <= Len(decoder_keys(header))
    /\ decoder_keys(header)[flush_pos] = id
\* The rows the sink has been given for device id
C22_Rows(id) == SumSeq(drains[id])

\* C22 (final flush): when parse() returns every accumulator has
\* num_buffers = 0 and empty header_time, time and channel queues, and
\* every buffer of the file has been drained; an iteration of
\* the final loop that does not raise drains exactly the buffers the
\* accumulator holds, and does nothing for an accumulator that holds none.
C22_FinalFlush ==
    /\ [](ParseReturned =>
            \A id \in Ids :
                /\ C22_Empty(id)
                /\ C22_Rows(id) = decoder[id].num_packets * Len(BuffersOf(id)))
    /\ [][\A id \in DOMAIN data :
             (C22_Flushing(id) /\ pc' # "error") =>
                 /\ data[id].num_buffs = 0 => (data' = data /\ locs' = locs /\ drains' = drains)
                 /\ data[id].num_buffs > 0 =>
                       /\ C22_Rows(id)' = C22_Rows(id)
                                           + decoder[id].num_packets * data[id].data.num_buffers
                       /\ C22_Empty(id)'
                       /\ \A o \in DOMAIN data \ {id} : data'[o] = data[o]]_vars
C22_Witness ==
    /\ ParseReturned
    /\ \E id \in Ids :
          /\ C22_Empty(id)
          /\ Len(drains[id]) = 2
          /\ drains[id][1] = 2 * decoder[id].num_packets
          /\ drains[id][2] = decoder[id].num_packets
          /\ Len(BuffersOf(id)) = 3
    /\ \E id \in Ids : drains[id] = <<>>

\* The offsets where pass 1 reads an ID byte, from loc on
RECURSIVE C26_Pass1Offsets(_, _, _)
C26_Pass1Offsets(dec, bytes, loc) ==
    IF loc >= Len(bytes) \/ bytes[loc + 1] \notin DOMAIN dec THEN <<>>
    ELSE <<loc>> \o C26_Pass1Offsets(dec, bytes, loc + dec[bytes[loc + 1]].buffer_size)
\* C26 (pass 2 replays pass 1): count_buffers leaves the reader at the offset
\* it found it at; every iteration of pass 2 that returns moves the reader
\* by the buffer_size of the device its ID byte names; so pass 2 reads its
\* IDs at the offsets where pass 1 read them, as many as pass 1 counted, and
\* never fails on an unknown ID.
C26_Pass2Replays ==
    /\ [](pc \in {"init", "stream", "flush", "done"} =>
             tot_buffers = Len(C26_Pass1Offsets(decoder, FileBytes(file), 0)))
    /\ [](pc = "stream" =>
             /\ file_loc = C26_Pass1Offsets(decoder, FileBytes(file), 0)[buffers_read + 1]
             /\ FileBytes(file)[file_loc + 1] \in DOMAIN decoder)
    /\ [](err # "KeyError")
    /\ [][pc = "count" => file_loc' = file_loc]_vars
    /\ [][(pc = "stream" /\ pc' # "error") =>
            /\ file_loc' = file_loc + decoder[FileBytes(file)[file_loc + 1]].buffer_size
            /\ buffers_read' = buffers_read + 1]_vars
\* Pass 2 has read three buffers of two devices of different buffer_size
C26_Witness ==
    /\ pc = "flush" /\ buffers_read = 3 /\ Len(header) = 2
    /\ file[1].id # file[2].id
    /\ file_loc = Len(FileBytes(file))

\* The deque objects of the accumulator of device id
C28_Queues(id) ==
    {data[id].data.refs.header_data, data[id].data.refs.header_time,
     data[id].data.refs.time}
    \cup {data[id].data.refs.data[c] : c \in 1..Len(data[id].data.refs.data)}
\* The step works on the accumulator of device id: an iteration of pass 2 on
\* a buffer of id, or the iteration of the final loop for id
C28_Processes(id) ==
    \/ /\ pc = "stream" /\ file_loc < Len(FileBytes(file))
       /\ FileBytes(file)[file_loc + 1] = id
    \/ /\ pc = "flush" /\ flush_pos <= Len(decoder_keys(header))
       /\ decoder_keys(header)[flush_pos] = id
\* C28 (device independence): no two accumulators hold the same deque
\* object, no accumulator holds a default object of the constructor, and a
\* step that processes a buffer of one device (its append, its drain) leaves
\* the accumulator and the counter of every other device as they were.
C28_Independent ==
    /\ [](\A a \in DOMAIN data :
             /\ \A b \in DOMAIN data \ {a} : C28_Queues(a) \cap C28_Queues(b) = {}
             /\ C28_Queues(a) \cap {DefaultDeque(f) : f \in {"header_data", "header_time",
                                                              "time"}} = {})
    /\ [][\A id \in DOMAIN data :
            C28_Processes(id) => \A o \in DOMAIN data \ {id} : data'[o] = data[o]]_vars
\* Two devices: one has been drained while the other holds a buffer
C28_Witness ==
    /\ Len(header) = 2 /\ pc = "flush"
    /\ \E a, b \in DOMAIN data :
          /\ a # b
          /\ drains[a] # <<>>
          /\ data[b].data.num_buffers > 0 /\ data[b].data.header_time # <<>>

\* The final loop has not yet come to device id
C29_Unflushed(id) ==
    \E k \in flush_pos..Len(decoder_keys(header)) : decoder_keys(header)[k] = id
\* C29 (counter agreement): after every process_buffer call of pass 2 that
\* returns, and in the final loop until the device's own iteration,
\* data[id]["num_buffs"] is the accumulator's num_buffers; the drain size
\* the next call takes after its append, min(num_to_pop, num_buffs), is
\* min(num_to_pop, num_buffers) and no more than the accumulator then holds.
C29_CounterAgreement ==
    /\ pc = "stream" =>
          \A id \in DOMAIN data :
             /\ data[id].num_buffs = data[id].data.num_buffers
             /\ num_popped(num_to_pop, data[id].num_buffs + 1)
                  = Min({num_to_pop, data[id].data.num_buffers + 1})
             /\ num_popped(num_to_pop, data[id].num_buffs + 1)
                  <= data[id].data.num_buffers + 1
    /\ pc = "flush" =>
          \A id \in DOMAIN data :
             C29_Unflushed(id) => data[id].num_buffs = data[id].data.num_buffers
\* Pass 2 goes on after a drain that left a buffer in the accumulator
C29_Witness ==
    /\ pc = "stream"
    /\ \E id \in DOMAIN data :
          /\ drains[id] # <<>>
          /\ data[id].num_buffs = 1 /\ data[id].data.num_buffers = 1

\* What read_data_header gives for the buffer pass 2 is about to read, a
\* buffer of device id
C30_NextHeader(id) ==
    read_data_header(decoder[id],
                     read_header_content(decoder[id], FileBytes(file), file_loc + 1).vals)
C30_NextPayload(id) ==
    read_raw_data_buffer(decoder[id],
                         read_all_bytes(decoder[id], FileBytes(file),
                                        file_loc + decoder[id].header_size).vals)
\* Pass 2 is about to read a buffer of device id whose sub-header timestamp is 0
C30_ZeroStamp(id) ==
    /\ pc = "stream"
    /\ file_loc < Len(FileBytes(file))
    /\ FileBytes(file)[file_loc + 1] = id
    /\ decoder[id].header_has_time
    /\ C30_NextHeader(id).time = <<0>>
\* The append of header_data, header_time, d, time to the accumulator self
\* enqueues the timestamp and returns with num_buffers = |header_time|
C30_Appends(self, a, header_time) ==
    /\ a.err = ""
    /\ a.buf.header_time = Append(self.header_time, header_time[1])
    /\ a.buf.num_buffers = Len(a.buf.header_time)
\* C30 (zero timestamp): the append of a buffer whose sub-header timestamp
\* is 0 enqueues the 0 on header_time, leaves num_buffers = |header_time|
\* and returns without raising, as for any other timestamp.
C30_ZeroTimestamp ==
    \A id \in DOMAIN data :
       C30_ZeroStamp(id) =>
          C30_Appends(data[id].data,
                      append_raw_data(data[id].data, C30_NextHeader(id).data,
                                      C30_NextHeader(id).time, C30_NextPayload(id).data,
                                      C30_NextPayload(id).time),
                      C30_NextHeader(id).time)

\* The sub-header of device id has slots besides the ID and T
C25_HasHeaderData(id) ==
    \E j \in 2..Len(decoder[id].header) : decoder[id].header[j] \notin {"T", "x"}
\* C25 (stale header_data dropped): a drain of n buffers takes n entries off
\* header_data, so that for a device whose sub-header has slots besides T,
\* after every drain that returns, header_data is as long as num_buffers and
\* no longer than pop_boundry.
C25_HeaderDataDropped ==
    [][\A id \in DOMAIN data :
         (/\ C25_HasHeaderData(id)
          /\ pc' # "error"
          /\ Len(drains'[id]) = Len(drains[id]) + 1) =>
             /\ Len(data'[id].data.header_data) = data'[id].data.num_buffers
             /\ Len(data'[id].data.header_data) <= data'[id].data.pop_boundry]_vars

\* ------------------------------------------------ claims on files of the disk
\* The file has no header line in front of the reader and its last buffer
\* is shorter than its device's buffer_size
C23_Truncated ==
    /\ file # <<>>
    /\ \A k \in 1..Len(file) : \E d \in 1..Len(header) : header[d].id = file[k].id
    /\ Len(file[Len(file)].bytes) < DeviceOf(header, file[Len(file)].id).buffer_size
\* The buffers of device id in front of the last buffer of the file
C23_Complete(id) == Cardinality({k \in 1..(Len(file) - 1) : file[k].id = id})
\* C23 (partial files): when the last buffer of the file is truncated,
\* parse() does not return; it ends with the short read of that buffer
\* (struct.error, every buffer in front of it read), the samples of every
\* complete buffer in front of it have reached the sink, and the sink
\* finalized afterwards has its columns at the written length.
C23_PartialOutput ==
    C23_Truncated =>
        /\ pc # "done"
        /\ pc \in {"error", "finalized"} =>
              /\ err = "struct.error"
              /\ buffers_read = Len(file) - 1
              /\ \A id \in DOMAIN decoder :
                    SumSeq(drains[id]) = decoder[id].num_packets * C23_Complete(id)
        /\ pc = "finalized" =>
              \A name \in DOMAIN locs :
                 locs[name].created => locs[name].size = locs[name].ind

\* parse(header_file) on a file that begins with its header line
C27_Overridden == file # <<>> /\ file[1] = LineRecord
\* C27 (header override): when parse() is given a header override for a file
\* that still begins with its header line, pass 1 starts at the first byte
\* after that line: it does not fail on an unknown ID, and the buffer index
\* it leaves (tot_buffers, and num_buffers of every device) is that of the
\* buffers after the line, as without override.
C27_HeaderOverride ==
    C27_Overridden =>
        /\ err # "Exception"
        /\ pc \notin {"start", "count"} =>
              /\ tot_buffers = Len(file) - 1
              /\ \A id \in DOMAIN decoder : decoder[id].num_buffers = Len(BuffersOf(id))

\* The buffer pass 2 is about to read belongs to device id, whose data format
\* has a pad tag besides its data tags, and its payload is whole
C24_Reading(id) ==
    /\ pc = "stream"
    /\ file_loc < Len(FileBytes(file))
    /\ FileBytes(file)[file_loc + 1] = id
    /\ HasTag(decoder[id].data, "x") /\ Unpacked(decoder[id].data) # <<>>
    /\ read_all_bytes(decoder[id], FileBytes(file), file_loc + decoder[id].header_size).err = ""
\* What read_raw_data_buffer gives for the payload vals of a buffer of entry
\* is one sequence per tag of data that is not a pad, in the order of the
\* tags, the k-th element being the tag's value in packet k (T's sequence is
\* the time), as many channel sequences as the accumulator has queues
C24_Decoded(entry, vals, r, queues) ==
    LET tags == Unpacked(entry.data)
        chans == SelectSeq([x \in 1..Len(tags) |-> x], LAMBDA x : tags[x] # "T")
    IN  /\ Len(r.data) = Len(chans)
        /\ \A c \in 1..Len(chans) :
              r.data[c] = [k \in 1..entry.num_packets |->
                              vals[(k - 1) * Len(tags) + chans[c]]]
        /\ HasTag(tags, "T") =>
              r.time = [k \in 1..entry.num_packets |->
                           vals[(k - 1) * Len(tags) + IndexOf(tags, "T") + 1]]
        /\ Len(r.data) = Len(queues)
\* C24 (byte unpacker with padding): decoding one payload of a data format
\* with pad tags next to data tags yields one sequence per non-padding tag,
\* left to right, each num_packets long, its k-th element the tag's value in
\* packet k; a pad yields nothing, and the sequences are as many as the
\* channel queues of the accumulator.
C24_PaddedPayload ==
    \A id \in DOMAIN decoder :
       C24_Reading(id) =>
          C24_Decoded(decoder[id],
                      read_all_bytes(decoder[id], FileBytes(file),
                                     file_loc + decoder[id].header_size).vals,
                      read_raw_data_buffer(
                          decoder[id],
                          read_all_bytes(decoder[id], FileBytes(file),
                                         file_loc + decoder[id].header_size).vals),
                      data[id].data.data)

\* ------------------------------------------ claims on the format descriptor
\* The storage classes of the tag table
C21_Table ==
    [t \in Tags |->
        CASE t = "B" -> "int8"   [] t = "b" -> "uint8"
          [] t = "H" -> "int16"  [] t = "h" -> "uint16"
          [] t = "U" -> "int32"  [] t = "u" -> "uint32"
          [] t = "f" -> "float32"
          [] t \in {"I", "L"} -> "int32"
          [] t \in {"i", "l"} -> "uint32"
          [] t \in {"X", "x"} -> "nan"
          [] OTHER -> "uint64"]

\* C21: get_packet_type returns for each tag of the format the storage class
\* of the tag table: B int8, b uint8, H int16, h uint16, U int32, u uint32,
\* f float32, T uint64, X and x ignored (nan), I and L both int32, i and l
\* both uint32.
C21_StorageClasses ==
    ty_pc = "done" =>
        /\ Len(ty_types) = Len(ty_format)
        /\ \A j \in 1..Len(ty_format) : ty_types[j] = C21_Table[ty_format[j]]

\* ------------------------------------------------- claims on the unwrapper
UnwrapReturned == uw_pc = "done"
UnwrapEnded == uw_pc \in {"done", "IndexError"}
Diffs(seq) == [j \in 1..(Len(seq) - 1) |-> seq[j + 1] - seq[j]]

\* C4 (unwrap fixed point): when the input is a monotone ramp masked to the
\* counter's width, the returned sequence has the ramp's differences,
\* pointwise, and the overflow count is floor(ramp_max / 2^TimeBits).  Stated
\* for the ramps whose every step is below bad_frac * MAX_TIME, which the
\* masked samples determine.
C4_FixedPoint ==
    (/\ UnwrapReturned
     /\ uw_max = MAX_TIME
     /\ Len(uw_ramp) >= 1
     /\ Monotone(uw_ramp)
     /\ \A j \in 1..(Len(uw_ramp) - 1) :
           bad_frac_den * (uw_ramp[j + 1] - uw_ramp[j]) < bad_frac_num * MAX_TIME
     /\ uw_values = Mask(uw_ramp))
    => /\ Diffs(uw_items) = Diffs(uw_ramp)
       /\ uw_overflows = Max({uw_ramp[j] : j \in 1..Len(uw_ramp)}) \div Modulus

\* C5 (unwrap idempotence): a strictly increasing sequence of counter values,
\* a step of bad_frac * MAX_TIME or more included, comes back unchanged with
\* zero overflows.
C5_Idempotent ==
    (/\ UnwrapEnded
     /\ uw_max = MAX_TIME
     /\ uw_values = uw_ramp
     /\ StrictlyIncreasing(uw_values))
    => /\ uw_pc = "done"
       /\ uw_items = uw_values
       /\ uw_overflows = 0

\* C6 (the unwrapper never errors): every call returns; a positive jump that
\* no negative jump follows leaves the input as it is.
C6_NeverErrors == uw_pc # "IndexError"

\* C7 (out-of-order write around a wrap): with one positive jump of at least
\* bad_frac * max at i and a negative jump of at most -bad_frac * max after
\* it, first at k, the loop over the positive jumps subtracts max from the
\* elements i+1..k, and the result adds max to each element once for every
\* large negative jump of that intermediate sequence before it; overflows
\* counts those jumps.  [253, 0, 254, 255, 1] with max = 256 passes through
\* [253, 0, -2, -1, 1] and ends as [253, 256, 254, 255, 257], overflows = 1.
C7_PosJumps(seq, m) == {i \in 1..(Len(seq) - 1) : 2 * (seq[i + 1] - seq[i]) >= m}
C7_NegJumps(seq, m) == {i \in 1..(Len(seq) - 1) : 2 * (seq[i + 1] - seq[i]) <= -m}
C7_Mid(seq, m) ==
    LET i == CHOOSE x \in C7_PosJumps(seq, m) : TRUE
        k == Min({n \in C7_NegJumps(seq, m) : n > i})
    IN  [j \in 1..Len(seq) |-> IF i < j /\ j <= k THEN seq[j] - m ELSE seq[j]]
C7_OutOfOrder ==
    /\ (/\ uw_pc \in {"fixed", "done"}
        /\ Cardinality(C7_PosJumps(uw_values, uw_max)) = 1)
       => LET mid == C7_Mid(uw_values, uw_max)
              N == C7_NegJumps(mid, uw_max)
          IN  /\ uw_pc = "fixed" => uw_items = mid
              /\ uw_pc = "done" =>
                    /\ \A j \in 1..Len(mid) :
                          uw_items[j] = mid[j] + uw_max * Cardinality({n \in N : n < j})
                    /\ uw_overflows = Cardinality(N)
    /\ (uw_values = <<253, 0, 254, 255, 1>> /\ uw_max = 2 ^ 8) =>
          /\ uw_pc # "IndexError"
          /\ uw_pc = "fixed" => uw_items = <<253, 0, -2, -1, 1>>
          /\ uw_pc = "done" => uw_items = <<253, 256, 254, 255, 257>> /\ uw_overflows = 1
C7_Witness ==
    /\ uw_values = <<253, 0, 254, 255, 1>>
    /\ uw_max = 2 ^ 8
    /\ uw_pc = "done"
    /\ uw_items = <<253, 256, 254, 255, 257>>

\* C8 (seed scenario S4): unwrapper([254, 0, 255], 256) returns
\* [254, 256, 255] with overflows = 1.
C8_S4 ==
    (uw_values = <<254, 0, 255>> /\ uw_max = 2 ^ 8 /\ UnwrapEnded)
    => /\ uw_pc = "done"
       /\ uw_items = <<254, 256, 255>>
       /\ uw_overflows = 1

====
